---- MODULE Spec2Model ----
(***************************************************************************)
(* Crash-reporter lifecycle of shell/browser/api/electron_api_crash_       *)
(* reporter.cc: the once-only Start, the crash-key and consent calls and   *)
(* the asynchronous upload-list query, as a state machine.                 *)
(*                                                                         *)
(* A thread is at "idle" between API calls.  Start is modelled statement   *)
(* by statement (one pc label per statement of lines 139-157) so that the  *)
(* states inside the call are states of the model.  Start's parameters     *)
(* are const inputs: the model draws each one at the statement that first  *)
(* reads it, and keeps the two maps in the caller's frame until the call   *)
(* returns.  The parameters crashes_directory, ignore_system_crash_handler,*)
(* rate_limit and compress are never read by the body and are not drawn.   *)
(***************************************************************************)
EXTENDS Integers, Sequences, FiniteSets, TLC

\* ---------------------------------------------------------------- bounds
\* Number of GetUploadedReports calls made in one run.
MaxCalls == 2
\* How many entries beyond the query limit the largest backing store holds.
MaxOver == 1

\* ------------------------------------------------------- program constants
\* list->GetUploads(100, &uploads)
MaxUploads == 100

\* ------------------------------------------------------------ input sets
Threads == {"t1", "t2"}
Keys == {"k1", "k2"}
KeyOrder == <<"k1", "k2">>          \* std::map iterates in key order
Values == {"v1", "v2"}
Urls == {"u1", "u2"}
NoUrl == ""
\* The platform the file is built for. Start's legacy path needs
\* breakpad_linux.h, which line 33 includes on POSIX other than macOS only.
Platform == "linux"

\* A std::map<std::string, std::string> over Keys.
Map(ks, v) == [k \in ks |-> v]
EmptyMap == Map({}, "v1")
\* The maps Start is called with.
ExtraArgs == {Map({"k1"}, "v1"), Map({"k1", "k2"}, "v1")}
ExtraGlobalArgs == {EmptyMap, Map({"k1"}, "v2")}

\* The i-th entry of a backing store: an UploadList::UploadInfo, its
\* upload_time a base::Time in microseconds (whole seconds, as the stores
\* record them).
Entry(i) == [upload_time |-> i * 1000000, upload_id |-> "r" \o ToString(i)]
Store(n) == [i \in 1..n |-> Entry(i)]
\* Store sizes: empty, below the query limit and beyond it.
StoreLens == {0, 2, MaxUploads + MaxOver}

VARIABLES
    crashpad_enabled,               \* what crash_reporter::IsCrashpadEnabled() answers
    g_crash_reporter_initialized,   \* line 47
    consent,                        \* ElectronCrashReporterClient's collect-stats consent
    crash_keys,                     \* electron::crash_keys annotations
    global_crash_keys,              \* lines 41-45
    upload_url,                     \* breakpad's upload URL
    crashpad_inits,                 \* calls of InitializeCrashpad so far
    breakpad_inits,                 \* calls of breakpad::InitCrashReporter so far
    backend_status,                 \* "none", "ok", "failed": outcome of the last init
    pc,                             \* per thread: the statement it is at
    frame,                          \* per thread: the running call's locals
    store,                          \* entries the backing store holds
    calls,                          \* GetUploadedReports calls, in call order
    start_called,                   \* history: some Start call was made
    first_check,                    \* history: the backend the first Start's check selected
    last_consent_write              \* history: <<b>> for the latest consent write b

vars == <<crashpad_enabled, g_crash_reporter_initialized, consent,
          crash_keys, global_crash_keys, upload_url, crashpad_inits,
          breakpad_inits, backend_status, pc, frame, store, calls,
          start_called, first_check, last_consent_write>>

env == <<crashpad_enabled, store>>
lifecycle == <<g_crash_reporter_initialized, consent, crash_keys,
               global_crash_keys, upload_url, crashpad_inits, breakpad_inits,
               backend_status>>
history == <<start_called, first_check, last_consent_write>>

NoFrame == [first |-> FALSE, extra_global |-> EmptyMap, extra |-> EmptyMap, call |-> 0]

StartPCs == {"start_guard", "start_set_flag", "start_consent", "start_branch",
             "start_crashpad", "start_url", "start_global", "start_extra",
             "start_extra_global", "start_breakpad"}

\* ------------------------------------------------------------ collaborators

\* electron::crash_keys::SetCrashKey(key, value): upsert.
SetCrashKey(keys, key, value) ==
    [k \in DOMAIN keys \cup {key} |-> IF k = key THEN value ELSE keys[k]]

\* electron::crash_keys::ClearCrashKey(key): removes the key if it is there.
ClearCrashKey(keys, key) ==
    [k \in DOMAIN keys \ {key} |-> keys[k]]

\* for (const auto& pair : extra) SetCrashKey(pair.first, pair.second);
RECURSIVE SetCrashKeysFromMapFrom(_, _, _)
SetCrashKeysFromMapFrom(keys, extra, i) ==
    IF i > Len(KeyOrder) THEN keys
    ELSE LET k == KeyOrder[i] IN
         SetCrashKeysFromMapFrom(
             IF k \in DOMAIN extra THEN SetCrashKey(keys, k, extra[k]) ELSE keys,
             extra, i + 1)

SetCrashKeysFromMap(keys, extra) == SetCrashKeysFromMapFrom(keys, extra, 1)

\* for (const auto& pair : extra_global) global_crash_keys[pair.first] = pair.second;
RECURSIVE MergeGlobalFrom(_, _, _)
MergeGlobalFrom(table, extra_global, i) ==
    IF i > Len(KeyOrder) THEN table
    ELSE LET k == KeyOrder[i] IN
         MergeGlobalFrom(
             IF k \in DOMAIN extra_global
             THEN [x \in DOMAIN table \cup {k} |->
                      IF x = k THEN extra_global[k] ELSE table[x]]
             ELSE table,
             extra_global, i + 1)

MergeGlobal(table, extra_global) == MergeGlobalFrom(table, extra_global, 1)

\* UploadList::GetUploads(max_count, &uploads): the first max_count entries.
GetUploads(list, max_count) ==
    SubSeq(list, 1, IF Len(list) < max_count THEN Len(list) ELSE max_count)

\* gin's converter of base::Time: a JS Date, milliseconds since the epoch.
TimeToV8(time) == time \div 1000

\* gin's converter of std::string: the same characters.
StringToV8(str) == str

\* ------------------------------------------------------------------ reads

IsCrashReporterEnabled == g_crash_reporter_initialized

GetGlobalCrashKeys == global_crash_keys

GetUploadToServer == consent

IsCrashpadEnabled == crashpad_enabled

\* ------------------------------------------------------------------ Init

Init ==
    /\ crashpad_enabled \in BOOLEAN
    /\ g_crash_reporter_initialized = FALSE
    /\ consent = FALSE
    /\ crash_keys = EmptyMap
    /\ global_crash_keys = EmptyMap
    /\ upload_url = NoUrl
    /\ crashpad_inits = 0
    /\ breakpad_inits = 0
    /\ backend_status = "none"
    /\ pc = [t \in Threads |-> IF t = "t1" THEN "idle" ELSE "off"]
    /\ frame = [t \in Threads |-> NoFrame]
    /\ store \in {Store(n) : n \in StoreLens}
    /\ calls = <<>>
    /\ start_called = FALSE
    /\ first_check = "none"
    /\ last_consent_write = <<>>

\* ----------------------------------------------------------------- Start

\* JS calls start(...): control enters Start.
StartCall(t) ==
    /\ pc[t] = "idle"
    /\ pc' = [pc EXCEPT ![t] = "start_guard"]
    /\ frame' = [frame EXCEPT ![t] = [NoFrame EXCEPT !.first = ~start_called]]
    /\ start_called' = TRUE
    /\ UNCHANGED <<env, lifecycle, calls, first_check, last_consent_write>>

\* Start without its guard: every call runs the body.
StartGuardAbsent(t) ==
    /\ pc[t] = "start_guard"
    /\ pc' = [pc EXCEPT ![t] = "start_set_flag"]
    /\ UNCHANGED <<env, lifecycle, frame, calls, history>>

\* if (g_crash_reporter_initialized) return;
StartGuard(t) ==
    /\ pc[t] = "start_guard"
    /\ IF g_crash_reporter_initialized
       THEN /\ pc' = [pc EXCEPT ![t] = "idle"]
            /\ frame' = [frame EXCEPT ![t] = NoFrame]
       ELSE /\ pc' = [pc EXCEPT ![t] = "start_set_flag"]
            /\ UNCHANGED frame
    /\ UNCHANGED <<env, lifecycle, calls, history>>

\* Start that leaves the flag as it found it.
StartSetFlagAbsent(t) ==
    /\ pc[t] = "start_set_flag"
    /\ pc' = [pc EXCEPT ![t] = "start_consent"]
    /\ UNCHANGED <<env, lifecycle, frame, calls, history>>

\* g_crash_reporter_initialized = true;
StartSetFlag(t) ==
    /\ pc[t] = "start_set_flag"
    /\ g_crash_reporter_initialized' = TRUE
    /\ pc' = [pc EXCEPT ![t] = "start_consent"]
    /\ UNCHANGED <<env, consent, crash_keys, global_crash_keys, upload_url,
                   crashpad_inits, breakpad_inits, backend_status, frame,
                   calls, history>>

\* SetUploadToServer(upload_to_server);
StartConsent(t) ==
    /\ pc[t] = "start_consent"
    /\ \E upload_to_server \in BOOLEAN :
          /\ consent' = upload_to_server
          /\ last_consent_write' =
                IF frame[t].first THEN <<upload_to_server>> ELSE last_consent_write
    /\ pc' = [pc EXCEPT ![t] = "start_branch"]
    /\ UNCHANGED <<env, g_crash_reporter_initialized, crash_keys,
                   global_crash_keys, upload_url, crashpad_inits,
                   breakpad_inits, backend_status, frame, calls,
                   start_called, first_check>>

\* The legacy branch beginning with the backend initialization.
StartBranchInitsFirst(t) ==
    /\ pc[t] = "start_branch"
    /\ pc' = [pc EXCEPT ![t] =
                 IF IsCrashpadEnabled THEN "start_crashpad" ELSE "start_breakpad"]
    /\ first_check' = IF ~frame[t].first THEN first_check
                      ELSE IF IsCrashpadEnabled THEN "structured" ELSE "legacy"
    /\ UNCHANGED <<env, lifecycle, frame, calls, start_called,
                   last_consent_write>>

\* if (crash_reporter::IsCrashpadEnabled()) ... else ...
StartBranch(t) ==
    /\ pc[t] = "start_branch"
    /\ pc' = [pc EXCEPT ![t] =
                 IF IsCrashpadEnabled THEN "start_crashpad" ELSE "start_url"]
    /\ first_check' = IF ~frame[t].first THEN first_check
                      ELSE IF IsCrashpadEnabled THEN "structured" ELSE "legacy"
    /\ UNCHANGED <<env, lifecycle, frame, calls, start_called,
                   last_consent_write>>

\* The Crashpad branch without its else: control falls into the legacy path.
StartCrashpadFallsThrough(t) ==
    /\ pc[t] = "start_crashpad"
    /\ crashpad_inits' = crashpad_inits + 1
    /\ \E ok \in BOOLEAN : backend_status' = IF ok THEN "ok" ELSE "failed"
    /\ pc' = [pc EXCEPT ![t] = "start_url"]
    /\ UNCHANGED <<env, g_crash_reporter_initialized, consent, crash_keys,
                   global_crash_keys, upload_url, breakpad_inits, frame, calls,
                   history>>

\* crash_reporter::InitializeCrashpad(process_type.empty(), process_type);
\* the outcome is the backend's and is not returned to Start.
StartCrashpad(t) ==
    /\ pc[t] = "start_crashpad"
    /\ crashpad_inits' = crashpad_inits + 1
    /\ \E ok \in BOOLEAN : backend_status' = IF ok THEN "ok" ELSE "failed"
    /\ pc' = [pc EXCEPT ![t] = "idle"]
    /\ frame' = [frame EXCEPT ![t] = NoFrame]
    /\ UNCHANGED <<env, g_crash_reporter_initialized, consent, crash_keys,
                   global_crash_keys, upload_url, breakpad_inits, calls,
                   history>>

\* breakpad::SetUploadURL(submit_url);
StartUrl(t) ==
    /\ pc[t] = "start_url"
    /\ \E submit_url \in Urls : upload_url' = submit_url
    /\ pc' = [pc EXCEPT ![t] = "start_global"]
    /\ UNCHANGED <<env, g_crash_reporter_initialized, consent, crash_keys,
                   global_crash_keys, crashpad_inits, breakpad_inits,
                   backend_status, frame, calls, history>>

\* the loop over extra_global into GetGlobalCrashKeysMutable()
StartGlobal(t) ==
    /\ pc[t] = "start_global"
    /\ \E extra_global \in ExtraGlobalArgs :
          /\ global_crash_keys' = MergeGlobal(global_crash_keys, extra_global)
          /\ frame' = [frame EXCEPT ![t].extra_global = extra_global]
    /\ pc' = [pc EXCEPT ![t] = "start_extra"]
    /\ UNCHANGED <<env, g_crash_reporter_initialized, consent, crash_keys,
                   upload_url, crashpad_inits, breakpad_inits, backend_status,
                   calls, history>>

\* The first seeding pass replacing the annotations by extra.
StartExtraReplacesAll(t) ==
    /\ pc[t] = "start_extra"
    /\ \E extra \in ExtraArgs :
          /\ crash_keys' = extra
          /\ frame' = [frame EXCEPT ![t].extra = extra]
    /\ pc' = [pc EXCEPT ![t] = "start_extra_global"]
    /\ UNCHANGED <<env, g_crash_reporter_initialized, consent,
                   global_crash_keys, upload_url, crashpad_inits,
                   breakpad_inits, backend_status, calls, history>>

\* SetCrashKeysFromMap(extra);
StartExtra(t) ==
    /\ pc[t] = "start_extra"
    /\ \E extra \in ExtraArgs :
          /\ crash_keys' = SetCrashKeysFromMap(crash_keys, extra)
          /\ frame' = [frame EXCEPT ![t].extra = extra]
    /\ pc' = [pc EXCEPT ![t] = "start_extra_global"]
    /\ UNCHANGED <<env, g_crash_reporter_initialized, consent,
                   global_crash_keys, upload_url, crashpad_inits,
                   breakpad_inits, backend_status, calls, history>>

\* The second seeding pass setting only the names the first left unset.
StartExtraGlobalKeepsExtra(t) ==
    /\ pc[t] = "start_extra_global"
    /\ crash_keys' = SetCrashKeysFromMap(frame[t].extra_global, crash_keys)
    /\ pc' = [pc EXCEPT ![t] = "start_breakpad"]
    /\ UNCHANGED <<env, g_crash_reporter_initialized, consent,
                   global_crash_keys, upload_url, crashpad_inits,
                   breakpad_inits, backend_status, frame, calls, history>>

\* SetCrashKeysFromMap(extra_global);
StartExtraGlobal(t) ==
    /\ pc[t] = "start_extra_global"
    /\ crash_keys' = SetCrashKeysFromMap(crash_keys, frame[t].extra_global)
    /\ pc' = [pc EXCEPT ![t] = "start_breakpad"]
    /\ UNCHANGED <<env, g_crash_reporter_initialized, consent,
                   global_crash_keys, upload_url, crashpad_inits,
                   breakpad_inits, backend_status, frame, calls, history>>

\* breakpad::InitCrashReporter(process_type);
StartBreakpad(t) ==
    /\ pc[t] = "start_breakpad"
    /\ breakpad_inits' = breakpad_inits + 1
    /\ \E ok \in BOOLEAN : backend_status' = IF ok THEN "ok" ELSE "failed"
    /\ pc' = [pc EXCEPT ![t] = "idle"]
    /\ frame' = [frame EXCEPT ![t] = NoFrame]
    /\ UNCHANGED <<env, g_crash_reporter_initialized, consent, crash_keys,
                   global_crash_keys, upload_url, crashpad_inits, calls,
                   history>>

\* ------------------------------------------------- crash keys and consent

\* addExtraParameter bound to a setter that keeps an existing value.
addExtraParameterKeepsOld(keys, name, value) ==
    IF name \in DOMAIN keys THEN keys ELSE SetCrashKey(keys, name, value)

\* dict.SetMethod("addExtraParameter", &electron::crash_keys::SetCrashKey)
addExtraParameter(keys, name, value) == SetCrashKey(keys, name, value)

\* removeExtraParameter bound to a clear of the whole table.
removeExtraParameterClearsAll(keys, name) ==
    IF name \in DOMAIN keys THEN EmptyMap ELSE keys

\* dict.SetMethod("removeExtraParameter", &electron::crash_keys::ClearCrashKey)
removeExtraParameter(keys, name) == ClearCrashKey(keys, name)

\* JS calls addExtraParameter(name, value).
AddExtraParameter(t, name, value) ==
    /\ pc[t] = "idle"
    /\ crash_keys' = addExtraParameter(crash_keys, name, value)
    /\ UNCHANGED <<env, g_crash_reporter_initialized, consent,
                   global_crash_keys, upload_url, crashpad_inits,
                   breakpad_inits, backend_status, pc, frame, calls, history>>

\* removeExtraParameter erasing the name from the global key table as well.
RemoveExtraParameterErasesGlobal(t, name) ==
    /\ pc[t] = "idle"
    /\ crash_keys' = removeExtraParameter(crash_keys, name)
    /\ global_crash_keys' = ClearCrashKey(global_crash_keys, name)
    /\ UNCHANGED <<env, g_crash_reporter_initialized, consent,
                   upload_url, crashpad_inits,
                   breakpad_inits, backend_status, pc, frame, calls, history>>

\* JS calls removeExtraParameter(name).
RemoveExtraParameter(t, name) ==
    /\ pc[t] = "idle"
    /\ crash_keys' = removeExtraParameter(crash_keys, name)
    /\ UNCHANGED <<env, g_crash_reporter_initialized, consent,
                   global_crash_keys, upload_url, crashpad_inits,
                   breakpad_inits, backend_status, pc, frame, calls, history>>

\* ElectronCrashReporterClient::Get()->SetCollectStatsConsent(upload);
SetUploadToServer(t, upload) ==
    /\ pc[t] = "idle"
    /\ consent' = upload
    /\ last_consent_write' = <<upload>>
    /\ UNCHANGED <<env, g_crash_reporter_initialized, crash_keys,
                   global_crash_keys, upload_url, crashpad_inits,
                   breakpad_inits, backend_status, pc, frame, calls,
                   start_called, first_check>>

\* return ElectronCrashReporterClient::Get()->GetCollectStatsConsent();
GetUploadToServerCall(t) ==
    /\ pc[t] = "idle"
    /\ UNCHANGED vars

\* --------------------------------------------------------- environment

\* The switch that crash_reporter::IsCrashpadEnabled() reads is appended to
\* the process's command line by a call made between two calls of the API;
\* nothing removes it.
EnableCrashpad(t) ==
    /\ pc[t] = "idle"
    /\ ~crashpad_enabled
    /\ crashpad_enabled' = TRUE
    /\ UNCHANGED <<store, lifecycle, pc, frame, calls, history>>

\* ---------------------------------------------------- GetUploadedReports

\* CreateCrashUploadList(): which reader the call constructs.
CreateCrashUploadList ==
    IF Platform = "mac_win" THEN "crashpad"
    ELSE IF IsCrashpadEnabled THEN "crashpad"
    ELSE "textlog"

\* gin::DataObjectBuilder(isolate).Set("date", ...).Set("id", ...).Build()
ToV8Object(upload) ==
    [date |-> TimeToV8(upload.upload_time), id |-> StringToV8(upload.upload_id)]

\* The loop putting each object in front of the ones before it.
BuildResultReversed(uploads) ==
    [i \in 1..Len(uploads) |-> ToV8Object(uploads[Len(uploads) + 1 - i])]

\* for (const auto& upload : uploads) result.push_back(...): one object per
\* upload, in the uploads' order.
BuildResult(uploads) ==
    [i \in 1..Len(uploads) |-> ToV8Object(uploads[i])]

\* The closure returning early, without the callback, when nothing was read.
ReplyLambdaSkipsEmpty(call) ==
    LET uploads == GetUploads(call.list, MaxUploads)
        result == BuildResult(uploads)
    IN IF uploads = <<>>
       THEN [call EXCEPT !.state = "done"]
       ELSE [call EXCEPT !.state = "done",
                         !.cb_runs = @ + 1,
                         !.cb_arg = result]

\* The closure with the callback kept in one slot shared by all calls: the
\* first completion consumes it and a later one finds it gone.
ReplyLambdaSharedCallback(call) ==
    LET uploads == GetUploads(call.list, MaxUploads)
        result == BuildResult(uploads)
    IN IF \E c \in 1..Len(calls) : calls[c].cb_runs > 0
       THEN [call EXCEPT !.state = "done"]
       ELSE [call EXCEPT !.state = "done",
                         !.cb_runs = @ + 1,
                         !.cb_arg = result]

\* The closure bound into list->Load: reads up to 100 entries of the loaded
\* list, converts them and runs the callback with the result.
ReplyLambda(call) ==
    LET uploads == GetUploads(call.list, MaxUploads)
        result == BuildResult(uploads)
    IN [call EXCEPT !.state = "done",
                    !.cb_runs = @ + 1,
                    !.cb_arg = result]

\* UploadList::Load(callback): starts the background load and keeps the
\* closure for its completion.
Load(call) == [call EXCEPT !.state = "loading"]

\* The list a call constructs; its uploads are empty until the load.
NewList == [reader |-> CreateCrashUploadList,
            caller |-> "",
            state |-> "created",
            list |-> <<>>,
            cb_runs |-> 0,
            cb_arg |-> <<>>]

\* GetUploadedReports running the closure itself, on the list as it is,
\* instead of binding it into Load.
GetUploadedReportsInline(t) ==
    /\ pc[t] = "idle"
    /\ Len(calls) < MaxCalls
    /\ calls' = Append(calls, ReplyLambda([NewList EXCEPT !.caller = t]))
    /\ frame' = [frame EXCEPT ![t].call = Len(calls) + 1]
    /\ pc' = [pc EXCEPT ![t] = "gur_return"]
    /\ UNCHANGED <<env, lifecycle, history>>

\* GetUploadedReports constructing the list and returning without Load.
GetUploadedReportsForgotten(t) ==
    /\ pc[t] = "idle"
    /\ Len(calls) < MaxCalls
    /\ calls' = Append(calls, [NewList EXCEPT !.caller = t])
    /\ frame' = [frame EXCEPT ![t].call = Len(calls) + 1]
    /\ pc' = [pc EXCEPT ![t] = "gur_return"]
    /\ UNCHANGED <<env, lifecycle, history>>

\* auto list = CreateCrashUploadList();
\* list->Load(base::BindOnce(lambda, list, std::move(callback)));
GetUploadedReports(t) ==
    /\ pc[t] = "idle"
    /\ Len(calls) < MaxCalls
    /\ calls' = Append(calls, Load([NewList EXCEPT !.caller = t]))
    /\ frame' = [frame EXCEPT ![t].call = Len(calls) + 1]
    /\ pc' = [pc EXCEPT ![t] = "gur_return"]
    /\ UNCHANGED <<env, lifecycle, history>>

\* GetUploadedReports returns to its caller.
GetUploadedReportsReturn(t) ==
    /\ pc[t] = "gur_return"
    /\ pc' = [pc EXCEPT ![t] = "idle"]
    /\ frame' = [frame EXCEPT ![t] = NoFrame]
    /\ UNCHANGED <<env, lifecycle, calls, history>>

\* The background load of call c finishes: the list now holds what the
\* store offered, or nothing when the store could not be read.
LoadComplete(c) ==
    /\ c \in 1..Len(calls)
    /\ calls[c].state = "loading"
    /\ \E ok \in BOOLEAN :
          calls' = [calls EXCEPT ![c].state = "loaded",
                                 ![c].list = IF ok THEN store ELSE <<>>]
    /\ UNCHANGED <<env, lifecycle, pc, frame, history>>

\* The completion of call c is delivered as a task of the caller's thread,
\* which runs it between two of its own tasks: the closure runs.
OnLoadComplete(c) ==
    /\ c \in 1..Len(calls)
    /\ calls[c].state = "loaded"
    /\ pc[calls[c].caller] = "idle"
    /\ calls' = [calls EXCEPT ![c] = ReplyLambda(@)]
    /\ UNCHANGED <<env, lifecycle, pc, frame, history>>

\* ------------------------------------------------------------------ Next

Next ==
    \/ \E t \in Threads : StartCall(t)
    \/ \E t \in Threads : StartGuard(t)
    \/ \E t \in Threads : StartSetFlag(t)
    \/ \E t \in Threads : StartConsent(t)
    \/ \E t \in Threads : StartBranch(t)
    \/ \E t \in Threads : StartCrashpad(t)
    \/ \E t \in Threads : StartUrl(t)
    \/ \E t \in Threads : StartGlobal(t)
    \/ \E t \in Threads : StartExtra(t)
    \/ \E t \in Threads : StartExtraGlobal(t)
    \/ \E t \in Threads : StartBreakpad(t)
    \/ \E t \in Threads, k \in Keys, v \in Values : AddExtraParameter(t, k, v)
    \/ \E t \in Threads, k \in Keys : RemoveExtraParameter(t, k)
    \/ \E t \in Threads, b \in BOOLEAN : SetUploadToServer(t, b)
    \/ \E t \in Threads : GetUploadToServerCall(t)
    \/ \E t \in Threads : GetUploadedReports(t)
    \/ \E t \in Threads : GetUploadedReportsReturn(t)
    \/ \E c \in 1..MaxCalls : LoadComplete(c)
    \/ \E c \in 1..MaxCalls : OnLoadComplete(c)

Spec == Init /\ [][Next]_vars

\* A step of a thread inside a call: Start and GetUploadedReports have no
\* wait and no loop that depends on another thread, so a call that was
\* entered runs to its return.
CallStep(t) ==
    \/ StartGuard(t) \/ StartSetFlag(t) \/ StartConsent(t) \/ StartBranch(t)
    \/ StartCrashpad(t) \/ StartUrl(t) \/ StartGlobal(t) \/ StartExtra(t)
    \/ StartExtraGlobal(t) \/ StartBreakpad(t)
    \/ GetUploadedReportsReturn(t)

\* The scheduling the calls run under: a thread inside a call goes on; a
\* load that was started finishes; the completion task of a load, which the
\* caller's thread can run whenever it is between two tasks, is run.
Fairness ==
    /\ \A t \in Threads : WF_vars(CallStep(t))
    /\ \A c \in 1..MaxCalls : WF_vars(LoadComplete(c))
    /\ \A c \in 1..MaxCalls : SF_vars(OnLoadComplete(c))

\* The fair runs are those over the store of two entries: what a load
\* delivers does not decide whether it is delivered, and a failed load
\* gives the runs their empty lists.
InitFair == Init /\ store = Store(2)

FairSpec == InitFair /\ [][Next]_vars /\ Fairness

\* The runs in which the command line is changed while the process runs.
NextEnv ==
    \/ Next
    \/ \E t \in Threads : EnableCrashpad(t)

SpecEnv == Init /\ [][NextEnv]_vars

\* Two threads that both call Start: the state after construction with the
\* second thread running as well, and the steps of Start alone. Line 47 is
\* a plain bool and Start takes no lock, so the statements of the two calls
\* interleave; a racing read of the flag gives the value before or after
\* the other thread's assignment, which is what the interleaving of the
\* check and the assignment gives.
InitConc ==
    /\ crashpad_enabled \in BOOLEAN
    /\ g_crash_reporter_initialized = FALSE
    /\ consent = FALSE
    /\ crash_keys = EmptyMap
    /\ global_crash_keys = EmptyMap
    /\ upload_url = NoUrl
    /\ crashpad_inits = 0
    /\ breakpad_inits = 0
    /\ backend_status = "none"
    /\ pc = [t \in Threads |-> "idle"]
    /\ frame = [t \in Threads |-> NoFrame]
    /\ store \in {Store(n) : n \in StoreLens}
    /\ calls = <<>>
    /\ start_called = FALSE
    /\ first_check = "none"
    /\ last_consent_write = <<>>

NextConc ==
    \/ \E t \in Threads : StartCall(t)
    \/ \E t \in Threads : StartGuard(t)
    \/ \E t \in Threads : StartSetFlag(t)
    \/ \E t \in Threads : StartConsent(t)
    \/ \E t \in Threads : StartBranch(t)
    \/ \E t \in Threads : StartCrashpad(t)
    \/ \E t \in Threads : StartUrl(t)
    \/ \E t \in Threads : StartGlobal(t)
    \/ \E t \in Threads : StartExtra(t)
    \/ \E t \in Threads : StartExtraGlobal(t)
    \/ \E t \in Threads : StartBreakpad(t)

SpecConc == InitConc /\ [][NextConc]_vars

\* ---------------------------------------------------------------- claims

\* Threads inside Start past the assignment of line 141.
PastSetFlag(t) == pc[t] \in StartPCs \ {"start_guard", "start_set_flag"}

\* A backend initialization is the last statement of either path of Start,
\* so a Start has run to its end once one was made.
StartCompleted == crashpad_inits + breakpad_inits > 0

\* The first Start call is still running in thread t.
InFirstStart(t) == pc[t] \in StartPCs /\ frame[t].first

\* The first Start call was made and has returned.
FirstStartReturned == start_called /\ \A t \in Threads : ~InFirstStart(t)

\* A step of a Start call that is not the first one.
LaterStartStep(t) == pc[t] \in StartPCs /\ ~frame[t].first /\ pc'[t] # pc[t]

\* C1: only the first Start call has an effect. IsCrashReporterEnabled() is
\* false until a Start call is made and true once the first one has returned;
\* it never goes back to false; and every step of a later Start call returns
\* to the caller leaving the flag, the consent value, the crash keys, the
\* global key table, the submit URL and the backend state as they were.
C1_OnlyFirstStartTakesEffect ==
    /\ [](~start_called => ~IsCrashReporterEnabled)
    /\ [](FirstStartReturned => IsCrashReporterEnabled)
    /\ [][IsCrashReporterEnabled => IsCrashReporterEnabled']_vars
    /\ [][\A t \in Threads :
             LaterStartStep(t) => pc'[t] = "idle" /\ UNCHANGED lifecycle]_vars

\* A later Start call stands at its guard after the first one initialized
\* the legacy backend and returned.
C1_Witness ==
    \E t \in Threads :
        /\ pc[t] = "start_guard"
        /\ ~frame[t].first
        /\ IsCrashReporterEnabled
        /\ breakpad_inits = 1

\* C2 as stated: IsCrashReporterEnabled() is true if and only if a Start has
\* run to its end and its backend initialization succeeded.
C2_EnabledIffStartSucceeded ==
    IsCrashReporterEnabled <=> (StartCompleted /\ backend_status = "ok")

\* C2, amended: IsCrashReporterEnabled() is true if and only if a Start call
\* has executed the assignment of the flag, its first statement after the
\* guard: it is true while that Start is still before its backend
\* initialization and stays true whatever the outcome of the initialization.
C2_EnabledIffFlagAssigned ==
    IsCrashReporterEnabled <=>
        (StartCompleted \/ \E t \in Threads : PastSetFlag(t))

\* The reporter reads as enabled although the backend initialization of the
\* Start that enabled it failed.
C2_Witness ==
    /\ IsCrashReporterEnabled
    /\ StartCompleted
    /\ backend_status = "failed"

\* C3: the backend is initialized once and its variant is fixed. At most one
\* initialization of either backend is ever made, exactly one once the first
\* Start has returned, and it is of the variant that the check made by the
\* first Start selected.
C3_BackendInitializedOnce ==
    /\ crashpad_inits + breakpad_inits <= 1
    /\ FirstStartReturned => crashpad_inits + breakpad_inits = 1
    /\ crashpad_inits = 1 => first_check = "structured"
    /\ breakpad_inits = 1 => first_check = "legacy"

\* The structured backend was initialized by the first Start and a later
\* Start call has run into its guard.
C3_Witness ==
    /\ crashpad_inits = 1
    /\ \E t \in Threads : pc[t] = "start_guard" /\ ~frame[t].first

\* Thread t is inside the GetUploadedReports call numbered c.
InsideGetUploadedReports(t, c) ==
    pc[t] = "gur_return" /\ frame[t].call = c

\* C4: the callback of a GetUploadedReports call runs at most once, never
\* while its caller is still inside the call, and only once the load of the
\* call has completed.
C4_CallbackOnceAndNeverInline ==
    \A c \in 1..Len(calls) :
        /\ calls[c].cb_runs <= 1
        /\ (\E t \in Threads : InsideGetUploadedReports(t, c))
               => calls[c].cb_runs = 0
        /\ calls[c].cb_runs = 1 => calls[c].state = "done"
        /\ calls[c].state = "loading" => calls[c].cb_runs = 0

\* The load of a call completed while its caller had not yet returned from
\* GetUploadedReports, and the callback has not run.
C4_Witness ==
    \E c \in 1..Len(calls) :
        /\ calls[c].state = "loaded"
        /\ \E t \in Threads : InsideGetUploadedReports(t, c)
        /\ calls[c].cb_runs = 0

\* Every call made so far has run its callback.
AllCallbacksDelivered == \A c \in 1..Len(calls) : calls[c].cb_runs = 1

\* C5: every GetUploadedReports call that was made eventually runs its
\* callback, under the fair scheduling of the threads, of the loads and of
\* the completion tasks: whenever a call is made, a later state has the
\* callback of every call made so far delivered.
C5_CallbackEventuallyRuns == []<>AllCallbacksDelivered

\* The last call the run may make has delivered its callback.
C5_Witness ==
    /\ Len(calls) = MaxCalls
    /\ calls[MaxCalls].cb_runs = 1

\* C6: the sequence given to the callback has min(100, n) elements for a
\* loaded list of n entries, never more than 100, and its i-th element
\* carries the i-th entry of the list: date is the entry's upload_time as a
\* JS Date (the same instant, in milliseconds) and id its upload_id.
C6_ResultIsFirstHundredInOrder ==
    \A c \in 1..Len(calls) :
        calls[c].cb_runs >= 1 =>
            LET list == calls[c].list
                n == Len(list)
                m == IF n < 100 THEN n ELSE 100
                arg == calls[c].cb_arg
            IN /\ Len(arg) = m
               /\ Len(arg) <= 100
               /\ \A i \in 1..m :
                     /\ DOMAIN arg[i] = {"date", "id"}
                     /\ arg[i].date * 1000 = list[i].upload_time
                     /\ arg[i].id = list[i].upload_id

\* A callback got 100 records of a loaded list that offered more than 100.
C6_Witness ==
    \E c \in 1..Len(calls) :
        /\ calls[c].cb_runs = 1
        /\ Len(calls[c].list) > 100
        /\ Len(calls[c].cb_arg) = 100

\* C7: a call whose load failed, or read an empty store, leaves a list
\* without entries; once its completion task is done it has run its callback
\* exactly once, with the empty sequence, whichever of the two it was.
C7_FailedOrEmptyLoadGivesEmptyResult ==
    \A c \in 1..Len(calls) :
        (calls[c].state = "done" /\ calls[c].list = <<>>)
            => (calls[c].cb_runs = 1 /\ calls[c].cb_arg = <<>>)

\* The load of a store that holds entries failed, and the callback ran with
\* the empty sequence.
C7_Witness ==
    \E c \in 1..Len(calls) :
        /\ calls[c].state = "done"
        /\ calls[c].list = <<>>
        /\ store # <<>>
        /\ calls[c].cb_runs = 1
        /\ calls[c].cb_arg = <<>>

\* C8: GetUploadToServer() returns the value of the latest consent write,
\* the writes being the SetUploadToServer calls and the uploadToServer
\* argument of the first Start; a later Start writes nothing.
C8_ConsentIsLatestWrite ==
    last_consent_write # <<>> => GetUploadToServer = last_consent_write[1]

\* A later Start call is under way while the consent reads TRUE, the value
\* written last.
C8_Witness ==
    /\ StartCompleted
    /\ last_consent_write = <<TRUE>>
    /\ GetUploadToServer = TRUE
    /\ \E t \in Threads : pc[t] = "start_guard" /\ ~frame[t].first

\* C9: addExtraParameter is an upsert with unique keys. Applied to the key
\* store with (k, v1) and then with (k, v2) it leaves k mapped to v2 and
\* every other key as it was, and applying it again with the same arguments
\* changes nothing.
C9_AddExtraParameterIsUpsert ==
    \A k \in Keys, v1 \in Values, v2 \in Values :
        LET once == addExtraParameter(crash_keys, k, v1)
            twice == addExtraParameter(once, k, v2)
        IN /\ DOMAIN once = DOMAIN crash_keys \cup {k}
           /\ once[k] = v1
           /\ DOMAIN twice = DOMAIN crash_keys \cup {k}
           /\ twice[k] = v2
           /\ \A x \in DOMAIN crash_keys \ {k} :
                 once[x] = crash_keys[x] /\ twice[x] = crash_keys[x]
           /\ addExtraParameter(twice, k, v2) = twice

\* Before any Start, both keys were added and hold different values.
C9_Witness ==
    /\ ~start_called
    /\ DOMAIN crash_keys = Keys
    /\ crash_keys["k1"] = "v2"
    /\ crash_keys["k2"] = "v1"

\* C10: removeExtraParameter of a key that is not in the key store leaves
\* the store as it was; of a key that is in it, removes that key and leaves
\* every other entry as it was.
C10_RemoveExtraParameterRemovesOnlyKey ==
    \A k \in Keys :
        LET after == removeExtraParameter(crash_keys, k)
        IN /\ k \notin DOMAIN crash_keys => after = crash_keys
           /\ DOMAIN after = DOMAIN crash_keys \ {k}
           /\ \A x \in DOMAIN after : after[x] = crash_keys[x]

\* Before any Start, the key store holds k2 and not k1.
C10_Witness ==
    /\ ~start_called
    /\ DOMAIN crash_keys = {"k2"}
    /\ crash_keys["k2"] = "v2"

\* The records a callback was given, as a set.
Records(c) == {calls[c].cb_arg[i] : i \in 1..Len(calls[c].cb_arg)}

Contains(keys, map) ==
    \A k \in DOMAIN map : k \in DOMAIN keys /\ keys[k] = map[k]

\* C12: when the first Start has run the legacy path's seeding (it is at the
\* backend initialization, its last statement), the annotations hold every
\* entry of extra_global, every entry of extra whose name extra_global does
\* not carry, so a name in both has extra_global's value, and the global key
\* table is exactly extra_global.
C12_LegacySeeding ==
    \A t \in Threads :
        (pc[t] = "start_breakpad" /\ frame[t].first) =>
            /\ Contains(crash_keys, frame[t].extra_global)
            /\ \A k \in DOMAIN frame[t].extra :
                  /\ k \in DOMAIN crash_keys
                  /\ crash_keys[k] = IF k \in DOMAIN frame[t].extra_global
                                     THEN frame[t].extra_global[k]
                                     ELSE frame[t].extra[k]
            /\ GetGlobalCrashKeys = frame[t].extra_global

\* The first Start seeded a name carried by both maps with different values,
\* and a name carried by extra alone.
C12_Witness ==
    \E t \in Threads :
        /\ pc[t] = "start_breakpad"
        /\ frame[t].first
        /\ \E k \in DOMAIN frame[t].extra \cap DOMAIN frame[t].extra_global :
              /\ frame[t].extra[k] # frame[t].extra_global[k]
              /\ crash_keys[k] = frame[t].extra_global[k]
        /\ \E k \in DOMAIN frame[t].extra \ DOMAIN frame[t].extra_global :
              crash_keys[k] = frame[t].extra[k]
        /\ GetGlobalCrashKeys = frame[t].extra_global

\* Thread t takes a step of a Start call that is on the structured path:
\* the statements up to the check while the check would select Crashpad,
\* or the Crashpad initialization itself.
StructuredStartStep(t) ==
    /\ pc'[t] # pc[t]
    /\ \/ pc[t] = "start_crashpad"
       \/ /\ pc[t] \in {"start_guard", "start_set_flag", "start_consent",
                        "start_branch"}
          /\ IsCrashpadEnabled

\* C13: a Start on the structured path changes the flag, the consent and the
\* Crashpad initialization state only: each of its steps leaves the crash
\* keys, the global key table, the submit URL, the legacy backend and the
\* upload list calls as they were and reads neither extra nor extra_global;
\* once the first Start's check has selected Crashpad the global key table
\* is empty, no URL is configured and the legacy backend is not initialized.
C13_StructuredStartFrame ==
    /\ [][\A t \in Threads :
             StructuredStartStep(t) =>
                 /\ UNCHANGED <<crash_keys, global_crash_keys, upload_url,
                                breakpad_inits, calls, store>>
                 /\ frame'[t].extra = EmptyMap
                 /\ frame'[t].extra_global = EmptyMap]_vars
    /\ [](first_check = "structured" =>
             /\ GetGlobalCrashKeys = EmptyMap
             /\ upload_url = NoUrl
             /\ breakpad_inits = 0)

\* The first Start ran the structured path to its end over crash keys that
\* were added before it: they are still there, the global key table is
\* empty and no URL is configured.
C13_Witness ==
    /\ first_check = "structured"
    /\ crashpad_inits = 1
    /\ \A t \in Threads : pc[t] \notin StartPCs
    /\ g_crash_reporter_initialized
    /\ crash_keys # EmptyMap
    /\ GetGlobalCrashKeys = EmptyMap
    /\ upload_url = NoUrl

\* Thread t, in the first Start, takes the step that initializes a backend.
FirstStartInitStep(t) ==
    /\ frame[t].first
    /\ pc'[t] # pc[t]
    /\ crashpad_inits' + breakpad_inits' # crashpad_inits + breakpad_inits

\* C14: the first Start records the consent only when the flag is set, and
\* initializes a backend only when the flag is set and its consent is
\* recorded, as the last statement before it returns; the legacy backend is
\* initialized only when the submit URL is configured, the global key table
\* holds extra_global and the annotations hold extra_global and every name
\* of extra.
C14_StartStepOrder ==
    [][\A t \in Threads :
          /\ (frame[t].first /\ pc[t] = "start_consent" /\ pc'[t] # pc[t])
                 => IsCrashReporterEnabled
          /\ FirstStartInitStep(t) =>
                 /\ IsCrashReporterEnabled
                 /\ last_consent_write = <<GetUploadToServer>>
                 /\ pc'[t] \notin StartPCs
          /\ (FirstStartInitStep(t) /\ breakpad_inits' # breakpad_inits) =>
                 /\ upload_url \in Urls
                 /\ GetGlobalCrashKeys = frame[t].extra_global
                 /\ Contains(crash_keys, frame[t].extra_global)
                 /\ DOMAIN frame[t].extra \subseteq DOMAIN crash_keys
                 /\ frame[t].extra \in ExtraArgs]_vars

\* The first Start has initialized the legacy backend and returned: the
\* flag is set, the consent is the one it recorded, the URL is configured
\* and the global key table is seeded.
C14_Witness ==
    /\ first_check = "legacy"
    /\ breakpad_inits = 1
    /\ \A t \in Threads : pc[t] \notin StartPCs
    /\ IsCrashReporterEnabled
    /\ last_consent_write = <<GetUploadToServer>>
    /\ upload_url \in Urls
    /\ GetGlobalCrashKeys # EmptyMap
    /\ Contains(crash_keys, GetGlobalCrashKeys)

\* Threads that have passed the guard of line 139 and are in Start's body.
InStartBody == {t \in Threads : pc[t] \in StartPCs \ {"start_guard"}}

\* C15: Start's body executes at most once even when two threads call
\* Start concurrently: at no time have two callers both passed the guard,
\* and at most one backend initialization is ever made.
C15_BodyOnceUnderConcurrentStart ==
    /\ Cardinality(InStartBody) <= 1
    /\ crashpad_inits + breakpad_inits <= 1

FirstStartPastMerge(t) ==
    /\ frame[t].first
    /\ pc[t] \in {"start_extra", "start_extra_global", "start_breakpad"}

\* C17: the global key table is written by the first Start on the legacy
\* path and by nothing else. A step changes it only if it is that Start's
\* merge, made into the empty table and leaving it equal to extra_global;
\* for the rest of that Start it is equal to extra_global, and it is not
\* empty only if the first Start took the legacy path. So the crash-key and
\* consent operations, GetUploadedReports and later Start calls leave it as
\* it is.
C17_GlobalTableWrittenOnce ==
    /\ [][global_crash_keys' # global_crash_keys =>
             \E t \in Threads :
                 /\ frame[t].first
                 /\ pc[t] = "start_global"
                 /\ first_check = "legacy"
                 /\ global_crash_keys = EmptyMap
                 /\ global_crash_keys' = frame'[t].extra_global]_vars
    /\ [](\A t \in Threads :
             FirstStartPastMerge(t) => GetGlobalCrashKeys = frame[t].extra_global)
    /\ [](GetGlobalCrashKeys # EmptyMap => first_check = "legacy")

\* A key seeded through extra_global was removed from the annotations after
\* the first Start returned, and a later Start call is under way: the
\* global key table still holds the key.
C17_Witness ==
    /\ breakpad_inits = 1
    /\ \E k \in DOMAIN GetGlobalCrashKeys : k \notin DOMAIN crash_keys
    /\ \E t \in Threads : pc[t] = "start_guard" /\ ~frame[t].first

\* Thread t takes a step of a Start call.
StartStep(t) == pc[t] \in StartPCs /\ pc'[t] # pc[t]

\* C18: the crash-key and consent operations and GetUploadedReports do not
\* enable the reporter: the flag changes only at the assignment of line 141
\* inside a Start call and is false as long as no Start was called. A step
\* of Start keeps every crash key that is there, and changes the value of a
\* key only if extra or extra_global carries its name; the first Start's
\* consent step leaves the consent equal to its upload_to_server argument,
\* whatever it was before.
C18_OperationsBeforeStart ==
    /\ [][g_crash_reporter_initialized' # g_crash_reporter_initialized =>
             \E t \in Threads : pc[t] = "start_set_flag" /\ StartStep(t)]_vars
    /\ [](~start_called => ~IsCrashReporterEnabled)
    /\ [][\A t \in Threads :
             StartStep(t) =>
                 \A k \in DOMAIN crash_keys :
                     /\ k \in DOMAIN crash_keys'
                     /\ crash_keys'[k] # crash_keys[k] =>
                            k \in DOMAIN frame'[t].extra
                                     \cup DOMAIN frame'[t].extra_global]_vars
    /\ [][\A t \in Threads :
             (StartStep(t) /\ pc[t] = "start_consent" /\ frame[t].first) =>
                 <<GetUploadToServer'>> = last_consent_write']_vars

\* The first Start has run the legacy seeding with an extra that carries one
\* name: a key of another name, added before the call with a value no Start
\* argument has, is still there, and the reporter is enabled.
C18_Witness ==
    \E t \in Threads :
        /\ pc[t] = "start_breakpad"
        /\ frame[t].first
        /\ IsCrashReporterEnabled
        /\ DOMAIN frame[t].extra = {"k1"}
        /\ "k2" \in DOMAIN crash_keys
        /\ crash_keys["k2"] = "v2"

====
